---- MODULE Spec2Model ----
(***************************************************************************)
(* Hotel-Booking server: the Express handlers of src/server.js (two        *)
(* concatenated programs: the Twilio one, lines 1-200, and the nodemailer  *)
(* one, lines 202-416) and of src/unnamed/part_000 (the Resend one).       *)
(*                                                                         *)
(* Every handler is an async function; each await is a point where the     *)
(* Node event loop may run another handler, so a handler is modelled as    *)
(* one action per synchronous segment.                                     *)
(*                                                                         *)
(* Conventions.  A JavaScript value is a record [t, n, s] (type tag,       *)
(* number, string).  Monetary numbers are carried in thousandths of the    *)
(* currency unit (50000 is 50.000), two-decimal strings in hundredths.     *)
(***************************************************************************)
EXTENDS Integers, Sequences, FiniteSets, TLC

\* ------------------------------------------------------------------ bounds
\* Handlers that may be in flight at the same time.
MaxInFlight == 2
\* Rows the bookings table may hold (caps AUTOINCREMENT).
MaxRows == 2

Slots == 1..MaxInFlight

\* ------------------------------------------------------- JavaScript values
Undef == [t |-> "undefined", n |-> 0, s |-> ""]
Null == [t |-> "null", n |-> 0, s |-> ""]
NaN == [t |-> "NaN", n |-> 0, s |-> ""]
Num(k) == [t |-> "number", n |-> k, s |-> ""]
Str(x) == [t |-> "string", n |-> 0, s |-> x]

\* ToBoolean, as used by `!x` and `x || y`.
Truthy(v) ==
    CASE v.t = "number" -> v.n # 0
      [] v.t = "string" -> v.s # ""
      [] OTHER -> FALSE

\* x || y
OrElse(x, y) == IF Truthy(x) THEN x ELSE y

\* The decimal strings the requests of this model carry, with their values.
DecimalLiterals == [s \in {"10.004"} |-> 10004]

\* Number(v) of server.js:88.
ToNumber(v) ==
    CASE v.t = "number" -> v
      [] v.t = "string" ->
            IF v.s = "" THEN Num(0)
            ELSE IF v.s \in DOMAIN DecimalLiterals THEN Num(DecimalLiterals[v.s])
            ELSE NaN
      [] v.t = "null" -> Num(0)
      [] OTHER -> NaN

\* Number.prototype.toFixed(2): the nearest hundredth, written as a string;
\* carried here as the count of hundredths.  NaN.toFixed(2) is "NaN".
ToFixed2(v) ==
    IF v.t = "NaN" THEN Str("NaN")
    ELSE LET m == v.n
             a == IF m < 0 THEN -m ELSE m
             q == (a + 5) \div 10
         IN Num(IF m < 0 THEN -q ELSE q)

\* A value bound to a REAL column: SQLite stores a NaN double as NULL.
SqlReal(v) == IF v.t = "NaN" THEN Null ELSE v

\* ------------------------------------------------------------------- state
VARIABLES
    variant,    \* which of the three programs is deployed
    db,         \* TRUE once `db = await open(...)` has assigned the handle
    alive,      \* FALSE once an uncaught exception has ended the process
    bookings,   \* the rows of table bookings, in id order
    req,        \* the /bookings, webhook and notify handlers in flight, per slot
    hreq        \* the /hotels handlers in flight, per slot

vars == <<variant, db, alive, bookings, req, hreq>>

\* server.js:1-200 (Twilio SMS), server.js:202-416 (nodemailer), part_000 (Resend).
Variants == {"twilio", "nodemailer", "resend"}

\* An INSERT that writes the final status at once.
InsertStatusConfirmed == "confirmed"
\* The status the INSERT writes (server.js:93).
InsertStatus == "pending"
\* The status the webhook's UPDATE writes (server.js:159).
ConfirmStatus == "confirmed"

\* ---------------------------------------------------------------- requests
EmptyBody ==
    [hotelName |-> Undef, total |-> Undef, checkin |-> Undef, checkout |-> Undef,
     guests |-> Undef, email |-> Undef, phone |-> Undef, bookingId |-> Undef]

\* Bodies a client may POST to /bookings.
BookingBodies ==
    { [EmptyBody EXCEPT !.hotelName = Str("Hilton"), !.total = Num(50000),
                        !.checkin = Str("2025-01-01"), !.checkout = Str("2025-01-03"),
                        !.guests = Num(2), !.email = Str("a@b.c")],
      [EmptyBody EXCEPT !.hotelName = Str("Ibis"), !.total = Str("10.004")],
      [EmptyBody EXCEPT !.hotelName = Str("Ibis"), !.total = Num(-5000)],
      [EmptyBody EXCEPT !.hotelName = Str("Ibis"), !.total = Str("abc")],
      [EmptyBody EXCEPT !.hotelName = Str("Hilton")],
      [EmptyBody EXCEPT !.total = Num(50000)] }

NoRes == [code |-> 0, text |-> "", bookingId |-> Undef, approveUrl |-> Undef]
Res(code, text) == [NoRes EXCEPT !.code = code, !.text = text]

NoAuth == [ok |-> FALSE, access_token |-> Undef]
NoOrder == [ok |-> FALSE, hasLinks |-> FALSE, links |-> <<>>]
NoOrderBody == [value |-> Undef, description |-> Undef, returnBookingId |-> Undef,
                email |-> Undef]

Idle ==
    [kind |-> "none", pc |-> "idle", body |-> EmptyBody, total |-> Undef,
     bookingId |-> Undef, authData |-> NoAuth, orderData |-> NoOrder,
     tokenCalls |-> 0, orderCalls |-> 0, orderBody |-> NoOrderBody,
     booking |-> <<>>, deliveryCalls |-> 0, message |-> <<>>, res |-> NoRes]

\* A new handler takes the lowest slot that holds no handler in flight.
Free(s) ==
    /\ req[s].pc \in {"idle", "done"}
    /\ \A x \in Slots : x < s => req[x].pc \notin {"idle", "done"}

\* What the payment provider may answer to the token request: a token, a
\* JSON body without one, or nothing usable (fetch rejects or json() throws).
TokenReplies ==
    { [ok |-> TRUE, access_token |-> Str("A21AA")],
      [ok |-> TRUE, access_token |-> Undef],
      [ok |-> FALSE, access_token |-> Undef] }

SelfLink == [rel |-> "self", href |-> "https://paypal/orders/1"]
ApproveLink == [rel |-> "approve", href |-> "https://paypal/approve/1"]

\* What the payment provider may answer to the order request.
OrderReplies ==
    { [ok |-> TRUE, hasLinks |-> TRUE, links |-> <<SelfLink, ApproveLink>>],
      [ok |-> TRUE, hasLinks |-> TRUE, links |-> <<SelfLink>>],
      [ok |-> TRUE, hasLinks |-> FALSE, links |-> <<>>],
      [ok |-> FALSE, hasLinks |-> FALSE, links |-> <<>>] }

\* links[0]?.href: the first link, whatever its rel.
FirstHref(links, rel) == IF links = <<>> THEN Undef ELSE Str(Head(links).href)

\* links.find((l) => l.rel === "approve")?.href  (server.js:143)
RECURSIVE FindHref(_, _)
FindHref(links, rel) ==
    IF links = <<>> THEN Undef
    ELSE IF Head(links).rel = rel THEN Str(Head(links).href)
    ELSE FindHref(Tail(links), rel)

\* orderData.links?.find(...)?.href
ApproveHref(orderData) ==
    IF orderData.hasLinks THEN FindHref(orderData.links, "approve") ELSE Undef

\* A handler that takes any JSON answer for a token.
HasAccessTokenUnchecked(authData) == authData.ok

\* !authData.access_token is false (server.js:116)
HasAccessToken(authData) == Truthy(authData.access_token)

\* ------------------------------------------------------------------- store
\* INSERT INTO bookings (...) VALUES (1, hotelName, checkin || "N/A", ...)
NewRow(id, body, total) ==
    [id |-> id, user_id |-> 1, hotel_name |-> body.hotelName,
     checkin |-> OrElse(body.checkin, Str("N/A")),
     checkout |-> OrElse(body.checkout, Str("N/A")),
     guests |-> OrElse(body.guests, Num(1)),
     total_amount |-> SqlReal(total), status |-> InsertStatus]

\* An id source that hands the id of the newest row out again.
NextIdReused(rows) == IF rows = <<>> THEN 1 ELSE Len(rows)

\* id INTEGER PRIMARY KEY AUTOINCREMENT: one more than the largest id ever used.
NextId(rows) == Len(rows) + 1

\* The decimal text of the ids that occur, as a URL parameter carries them.
IdText == <<"1", "2", "3", "4", "5">>

\* `id = ?` on the INTEGER column: a bound number is compared as it is, a
\* bound text is first converted to a number when it looks like one.
SqlIdEq(id, v) ==
    CASE v.t = "number" -> v.n = id
      [] v.t = "string" -> id \in DOMAIN IdText /\ v.s = IdText[id]
      [] OTHER -> FALSE

\* An UPDATE whose WHERE clause is lost: every row gets the status.
UpdateStatusAllRows(rows, status, id) ==
    [i \in DOMAIN rows |-> [rows[i] EXCEPT !.status = status]]

\* An UPDATE that flips the status of the row instead of setting it.
UpdateStatusToggle(rows, status, id) ==
    [i \in DOMAIN rows |->
        IF SqlIdEq(rows[i].id, id)
        THEN [rows[i] EXCEPT !.status = IF @ = status THEN "pending" ELSE status]
        ELSE rows[i]]

\* UPDATE bookings SET status = ? WHERE id = ?
UpdateStatus(rows, status, id) ==
    [i \in DOMAIN rows |->
        IF SqlIdEq(rows[i].id, id) THEN [rows[i] EXCEPT !.status = status] ELSE rows[i]]

\* A SELECT whose WHERE clause is lost: the first row of the table.
SelectFirst(rows, id) == SelectSeq(rows, LAMBDA r : TRUE)

\* SELECT * FROM bookings WHERE id = ?  (db.get: the first row or undefined)
SelectById(rows, id) == SelectSeq(rows, LAMBDA r : SqlIdEq(r.id, id))

\* Rows that handlers already past validation are still going to insert.
PendingInserts == Cardinality({s \in Slots : req[s].kind = "bookings" /\ req[s].pc = "insert"})

\* ------------------------------------------------------------------- start
Init ==
    /\ variant \in Variants
    /\ db = FALSE
    /\ alive = TRUE
    /\ bookings = <<>>
    /\ req = [s \in Slots |-> Idle]
    /\ hreq = [s \in Slots |-> [pc |-> "idle"]]

\* db = await open(...); await db.exec(CREATE TABLE IF NOT EXISTS ...)
\* The exec is queued on the connection ahead of every later statement.
DbOpen ==
    /\ alive /\ ~db
    /\ db' = TRUE
    /\ UNCHANGED <<variant, alive, bookings, req, hreq>>

\* -------------------------------------------------------- POST /bookings
\* if (!hotelName || !total) return 400
MissingRequired(body) == ~Truthy(body.hotelName) \/ ~Truthy(body.total)

\* First segment: destructure, validate, Number(total), call db.run.
BookingsValidate(s, body) ==
    /\ alive /\ Free(s)
    /\ LET r0 == [Idle EXCEPT !.kind = "bookings", !.body = body] IN
       IF MissingRequired(body)
       THEN req' = [req EXCEPT ![s] =
                [r0 EXCEPT !.pc = "done", !.res = Res(400, "Missing required fields")]]
       ELSE IF ~db
       THEN \* db is undefined: db.run throws a TypeError, caught at the bottom
            req' = [req EXCEPT ![s] =
                [r0 EXCEPT !.pc = "done", !.total = ToNumber(body.total),
                           !.res = Res(500, "Failed to create booking")]]
       ELSE /\ Len(bookings) + PendingInserts < MaxRows
            /\ req' = [req EXCEPT ![s] =
                [r0 EXCEPT !.pc = "insert", !.total = ToNumber(body.total)]]
    /\ UNCHANGED <<variant, db, alive, bookings, hreq>>

\* The INSERT runs; its result carries lastID.
BookingsInsert(s) ==
    /\ alive /\ req[s].kind = "bookings" /\ req[s].pc = "insert"
    /\ LET id == NextId(bookings) IN
       /\ bookings' = Append(bookings, NewRow(id, req[s].body, req[s].total))
       /\ req' = [req EXCEPT ![s].pc = "inserted", ![s].bookingId = Num(id)]
    /\ UNCHANGED <<variant, db, alive, hreq>>

\* As BookingsTokenFetch, with the `await` before db.run dropped: the token
\* request may leave while the INSERT is still queued.
BookingsTokenFetchNoAwait(s) ==
    /\ alive /\ req[s].kind = "bookings" /\ req[s].pc \in {"insert", "inserted"}
    /\ req[s].tokenCalls = 0
    /\ req' = [req EXCEPT ![s].pc = IF @ = "inserted" THEN "token" ELSE @,
                          ![s].tokenCalls = @ + 1]
    /\ UNCHANGED <<variant, db, alive, bookings, hreq>>

\* The handler resumes after `await db.run` and sends the token request.
BookingsTokenFetch(s) ==
    /\ alive /\ req[s].kind = "bookings" /\ req[s].pc = "inserted"
    /\ req' = [req EXCEPT ![s].pc = "token", ![s].tokenCalls = @ + 1]
    /\ UNCHANGED <<variant, db, alive, bookings, hreq>>

\* The body of the order request (JSON.stringify argument).
OrderBody(r) ==
    [value |-> ToFixed2(r.total), description |-> r.body.hotelName,
     returnBookingId |-> r.bookingId,
     email |-> OrElse(r.body.email, Str("user@example.com"))]

\* RAILWAY_URL is in scope of the /bookings handler: declared there in
\* server.js:119 and part_000:112, but only inside the /hotels handler
\* (server.js:249) in the nodemailer program, where reading it throws.
RailwayUrlInScope(v) == v # "nodemailer"

\* The token response arrives: check access_token, build and send the order.
BookingsTokenReply(s, authData) ==
    /\ alive /\ req[s].kind = "bookings" /\ req[s].pc = "token"
    /\ LET r1 == [req[s] EXCEPT !.authData = authData]
           fail == [r1 EXCEPT !.pc = "done", !.res = Res(500, "Failed to create booking")]
       IN
       IF ~authData.ok THEN req' = [req EXCEPT ![s] = fail]
       ELSE IF ~HasAccessToken(authData) THEN req' = [req EXCEPT ![s] = fail]
       ELSE IF ~RailwayUrlInScope(variant) THEN req' = [req EXCEPT ![s] = fail]
       ELSE req' = [req EXCEPT ![s] =
                [r1 EXCEPT !.pc = "order", !.orderCalls = @ + 1, !.orderBody = OrderBody(r1)]]
    /\ UNCHANGED <<variant, db, alive, bookings, hreq>>

\* As BookingsOrderReply, with one retry: after a first order response that
\* is not ok or has no approve link the order request is sent again.
BookingsOrderReplyRetrying(s, orderData) ==
    /\ alive /\ req[s].kind = "bookings" /\ req[s].pc = "order"
    /\ LET r1 == [req[s] EXCEPT !.orderData = orderData]
           approveLink == ApproveHref(orderData)
       IN
       IF (~orderData.ok \/ ~Truthy(approveLink)) /\ req[s].orderCalls < 2
       THEN req' = [req EXCEPT ![s] = [r1 EXCEPT !.orderCalls = @ + 1]]
       ELSE IF ~orderData.ok \/ ~Truthy(approveLink)
       THEN req' = [req EXCEPT ![s] =
                [r1 EXCEPT !.pc = "done", !.res = Res(500, "Failed to create booking")]]
       ELSE req' = [req EXCEPT ![s] =
                [r1 EXCEPT !.pc = "done",
                           !.res = [code |-> 200, text |-> "", bookingId |-> r1.bookingId,
                                    approveUrl |-> approveLink]]]
    /\ UNCHANGED <<variant, db, alive, bookings, hreq>>

\* The order response arrives: pick the approve link and answer.
BookingsOrderReply(s, orderData) ==
    /\ alive /\ req[s].kind = "bookings" /\ req[s].pc = "order"
    /\ LET r1 == [req[s] EXCEPT !.orderData = orderData]
           approveLink == ApproveHref(orderData)
       IN
       IF ~orderData.ok \/ ~Truthy(approveLink)
       THEN req' = [req EXCEPT ![s] =
                [r1 EXCEPT !.pc = "done", !.res = Res(500, "Failed to create booking")]]
       ELSE req' = [req EXCEPT ![s] =
                [r1 EXCEPT !.pc = "done",
                           !.res = [code |-> 200, text |-> "", bookingId |-> r1.bookingId,
                                    approveUrl |-> approveLink]]]
    /\ UNCHANGED <<variant, db, alive, bookings, hreq>>

\* ----------------------------------------- POST /payments/webhook/paypal
WebhookBodies ==
    {EmptyBody} \cup {[EmptyBody EXCEPT !.bookingId = Num(i)] : i \in 1..(MaxRows + 1)}

\* res.send("ok") in server.js, res.json({success: true}) in part_000.
WebhookOk(v) == IF v = "resend" THEN Res(200, "success") ELSE Res(200, "ok")

\* First segment: check bookingId, call db.run.
WebhookStart(s, body) ==
    /\ alive /\ Free(s)
    /\ LET r0 == [Idle EXCEPT !.kind = "webhook", !.body = body] IN
       IF ~Truthy(body.bookingId)
       THEN req' = [req EXCEPT ![s] =
                [r0 EXCEPT !.pc = "done", !.res = Res(400, "Missing bookingId")]]
       ELSE IF ~db
       THEN req' = [req EXCEPT ![s] =
                [r0 EXCEPT !.pc = "done", !.res = Res(500, "Failed to confirm booking")]]
       ELSE req' = [req EXCEPT ![s] = [r0 EXCEPT !.pc = "update"]]
    /\ UNCHANGED <<variant, db, alive, bookings, hreq>>

\* The UPDATE runs and the handler answers.
WebhookUpdate(s) ==
    /\ alive /\ req[s].kind = "webhook" /\ req[s].pc = "update"
    /\ bookings' = UpdateStatus(bookings, ConfirmStatus, req[s].body.bookingId)
    /\ req' = [req EXCEPT ![s].pc = "done", ![s].res = WebhookOk(variant)]
    /\ UNCHANGED <<variant, db, alive, hreq>>

\* ------------------------- POST /notify-sms/:bookingId, POST /notify/:bookingId
\* The contact field the deployed program reads from the body.
Contact(v, body) == IF v = "twilio" THEN body.phone ELSE body.email

NotifyBodies ==
    { [EmptyBody EXCEPT !.bookingId = Str(IdText[i]), !.email = c, !.phone = c] :
        i \in 1..(MaxRows + 1), c \in {Undef, Str("a@b.c")} }

\* server.js:172 and server.js:369 reject a missing contact; part_000 does not.
ContactRequired(v) == v # "resend"

NotifyFailed(v) ==
    IF v = "twilio" THEN Res(500, "Failed to send SMS") ELSE Res(500, "Failed to send email")

NotifySent(v) ==
    CASE v = "twilio" -> Res(200, "SMS sent successfully")
      [] v = "nodemailer" -> Res(200, "Email sent successfully")
      [] OTHER -> Res(200, "Email sent")

\* The text rendered from the row that was read.
Render(v, to, row) ==
    [to |-> to, hotel |-> row.hotel_name, checkin |-> row.checkin,
     checkout |-> row.checkout, guests |-> row.guests, total |-> row.total_amount,
     status |-> IF v = "resend" THEN row.status ELSE "",
     id |-> IF v = "nodemailer" THEN row.id ELSE 0]

\* First segment: check the contact, call db.get.
NotifyStart(s, body) ==
    /\ alive /\ Free(s)
    /\ LET r0 == [Idle EXCEPT !.kind = "notify", !.body = body] IN
       IF ContactRequired(variant) /\ ~Truthy(Contact(variant, body))
       THEN req' = [req EXCEPT ![s] =
                [r0 EXCEPT !.pc = "done",
                           !.res = Res(400, IF variant = "twilio" THEN "Missing phone number"
                                            ELSE "Missing email")]]
       ELSE IF ~db
       THEN req' = [req EXCEPT ![s] = [r0 EXCEPT !.pc = "done", !.res = NotifyFailed(variant)]]
       ELSE req' = [req EXCEPT ![s] = [r0 EXCEPT !.pc = "select"]]
    /\ UNCHANGED <<variant, db, alive, bookings, hreq>>

\* The SELECT runs; the handler renders the message and calls the provider.
NotifySelect(s) ==
    /\ alive /\ req[s].kind = "notify" /\ req[s].pc = "select"
    /\ LET found == SelectById(bookings, req[s].body.bookingId) IN
       IF found = <<>>
       THEN req' = [req EXCEPT ![s].pc = "done", ![s].res = Res(404, "Booking not found")]
       ELSE req' = [req EXCEPT ![s].pc = "deliver", ![s].booking = <<found[1]>>,
                               ![s].deliveryCalls = @ + 1,
                               ![s].message =
                                   <<Render(variant, Contact(variant, req[s].body), found[1])>>]
    /\ UNCHANGED <<variant, db, alive, bookings, hreq>>

\* The delivery provider answers: resolved, or rejected (caught, 500).
NotifyDelivered(s, sent) ==
    /\ alive /\ req[s].kind = "notify" /\ req[s].pc = "deliver"
    /\ req' = [req EXCEPT ![s].pc = "done",
                          ![s].res = IF sent THEN NotifySent(variant) ELSE NotifyFailed(variant)]
    /\ UNCHANGED <<variant, db, alive, bookings, hreq>>

\* ---------------------------------------------------------------- GET /hotels
\* Records the upstream catalog may return.
MaxHotels == 21

\* The sizes of the upstream payloads tried: the small ones and the largest.
UpstreamSizes == {n \in 0..MaxHotels : n <= 3 \/ n >= MaxHotels - 1}

\* The query strings tried for page and limit (Undef: parameter absent).
QueryPages == {Undef, Str("1"), Str("2"), Str("3")}
QueryLimits == {Undef, Str("1"), Str("2")}

\* parseInt on the decimal strings that occur.
ParseInt(v) ==
    CASE v.s = "1" -> 1
      [] v.s = "2" -> 2
      [] v.s = "3" -> 3
      [] v.s = "10" -> 10

\* replace(/<[^>]+>/g, ""): drop every "<", one or more characters other
\* than ">", ">"; text is a sequence of characters.
RECURSIVE StripTags(_)
StripTags(text) ==
    IF text = <<>> THEN <<>>
    ELSE IF Head(text) # "<" THEN <<Head(text)>> \o StripTags(Tail(text))
    ELSE LET closers == {j \in 2..Len(text) : text[j] = ">"} IN
         IF closers = {} THEN text
         ELSE LET j == CHOOSE k \in closers : \A m \in closers : k <= m IN
              IF j = 2 THEN <<Head(text)>> \o StripTags(Tail(text))
              ELSE StripTags(SubSeq(text, j + 1, Len(text)))

\* The k-th record of the upstream payload.  Three shapes alternate: markup
\* in the description and both photos; no description and a thumbnail only;
\* a description with "<>" and an unclosed "<", an empty main_photo.
UpstreamHotel(k) ==
    LET shape == k % 3 IN
    [id |-> k, name |-> "Hotel", address |-> "Street", city |-> "Manila",
     stars |-> 1 + shape, rating |-> 7 + shape,
     hasDescription |-> shape # 2,
     hotelDescription |->
        CASE shape = 1 -> <<"<", "p", ">", "O", "k", "<", "/", "p", ">">>
          [] shape = 2 -> <<>>
          [] OTHER -> <<"a", "<", ">", "b", "<", "c">>,
     main_photo |-> CASE shape = 1 -> Str("main.jpg") [] shape = 2 -> Undef [] OTHER -> Str(""),
     thumbnail |-> CASE shape = 1 -> Str("thumb.jpg") [] shape = 2 -> Str("thumb.jpg")
                     [] OTHER -> Undef]

\* (json.data || []).map((h) => ({ id, name, description, ... image }))
Normalize(h) ==
    [id |-> h.id, name |-> h.name,
     hasDescription |-> h.hasDescription,
     description |-> IF h.hasDescription THEN StripTags(h.hotelDescription) ELSE <<>>,
     address |-> h.address, city |-> h.city, stars |-> h.stars, rating |-> h.rating,
     image |-> OrElse(h.main_photo, h.thumbnail)]

HIdle == [pc |-> "idle"]
HFree(s) ==
    /\ hreq[s].pc \in {"idle", "done"}
    /\ \A x \in Slots : x < s => hreq[x].pc \notin {"idle", "done"}

\* The programs of server.js call https.get, part_000 calls fetch.
UsesHttpsGet(v) == v # "resend"

\* Array.prototype.slice(start, end) on a sequence.
JsSlice(seq, start, end) ==
    LET len == Len(seq)
        rel(k) == IF k < 0 THEN (IF len + k < 0 THEN 0 ELSE len + k)
                  ELSE (IF k > len THEN len ELSE k)
        from == rel(start)
        to == rel(end)
    IN IF to <= from THEN <<>> ELSE SubSeq(seq, from + 1, to)

\* What the upstream call may end in: a JSON body with n records, a body that
\* JSON.parse rejects, or a transport failure.
UpstreamOutcomes ==
    {[kind |-> "json", n |-> n] : n \in UpstreamSizes}
        \cup {[kind |-> "unparsable", n |-> 0], [kind |-> "transport", n |-> 0]}

\* First segment: parse page and limit, start the upstream call.
HotelsStart(s, qpage, qlimit) ==
    /\ alive /\ HFree(s)
    /\ hreq' = [hreq EXCEPT ![s] =
            [pc |-> "upstream", page |-> ParseInt(OrElse(qpage, Str("1"))),
             limit |-> ParseInt(OrElse(qlimit, Str("10")))]]
    /\ UNCHANGED <<variant, db, alive, bookings, req>>

\* A response whose total counts the page, not the full list.
HotelsPageCounted(page, limit, n) ==
    LET hotels == [i \in 1..n |-> Normalize(UpstreamHotel(i))]
        start == (page - 1) * limit
        end == start + limit
    IN [code |-> 200, data |-> JsSlice(hotels, start, end),
        total |-> Len(JsSlice(hotels, start, end)), text |-> ""]

\* res.json({ data: hotels.slice(start, end), total: hotels.length })
HotelsPage(page, limit, n) ==
    LET hotels == [i \in 1..n |-> Normalize(UpstreamHotel(i))]
        start == (page - 1) * limit
        end == start + limit
    IN [code |-> 200, data |-> JsSlice(hotels, start, end), total |-> n, text |-> ""]

HotelsError(text) == [code |-> 500, data |-> <<>>, total |-> 0, text |-> text]

\* https.get: the response callback parses inside try/catch; the request
\* object gets no 'error' listener, so a transport failure is an unhandled
\* 'error' event, which ends the process.
HotelsHttpsOutcome(s, out) ==
    /\ alive /\ UsesHttpsGet(variant) /\ hreq[s].pc = "upstream"
    /\ IF out.kind = "transport"
       THEN /\ alive' = FALSE
            /\ hreq' = [hreq EXCEPT ![s] = [@ EXCEPT !.pc = "lost"]]
       ELSE /\ alive' = alive
            /\ hreq' = [hreq EXCEPT ![s] =
                    [pc |-> "done", page |-> @.page, limit |-> @.limit,
                     out |-> out.kind, n |-> out.n,
                     res |-> IF out.kind = "json" THEN HotelsPage(@.page, @.limit, out.n)
                             ELSE HotelsError("Failed to parse hotels")]]
    /\ UNCHANGED <<variant, db, bookings, req>>

\* fetch(...).then(json).then(...).catch(...): every failure reaches the catch.
HotelsFetchOutcome(s, out) ==
    /\ alive /\ ~UsesHttpsGet(variant) /\ hreq[s].pc = "upstream"
    /\ hreq' = [hreq EXCEPT ![s] =
            [pc |-> "done", page |-> @.page, limit |-> @.limit, out |-> out.kind,
             n |-> out.n,
             res |-> IF out.kind = "json" THEN HotelsPage(@.page, @.limit, out.n)
                     ELSE HotelsError("Failed to fetch hotels")]]
    /\ UNCHANGED <<variant, db, alive, bookings, req>>

\* ------------------------------------------------------------ specifications
Next ==
    \/ DbOpen
    \/ \E s \in Slots, body \in BookingBodies : BookingsValidate(s, body)
    \/ \E s \in Slots : BookingsInsert(s)
    \/ \E s \in Slots : BookingsTokenFetch(s)
    \/ \E s \in Slots, a \in TokenReplies : BookingsTokenReply(s, a)
    \/ \E s \in Slots, o \in OrderReplies : BookingsOrderReply(s, o)
    \/ \E s \in Slots, body \in WebhookBodies : WebhookStart(s, body)
    \/ \E s \in Slots : WebhookUpdate(s)
    \/ \E s \in Slots, body \in NotifyBodies : NotifyStart(s, body)
    \/ \E s \in Slots : NotifySelect(s)
    \/ \E s \in Slots, sent \in BOOLEAN : NotifyDelivered(s, sent)

Spec == Init /\ [][Next]_vars

NextHotels ==
    \/ \E s \in Slots, qpage \in QueryPages, qlimit \in QueryLimits :
            HotelsStart(s, qpage, qlimit)
    \/ \E s \in Slots, out \in UpstreamOutcomes : HotelsHttpsOutcome(s, out)
    \/ \E s \in Slots, out \in UpstreamOutcomes : HotelsFetchOutcome(s, out)

SpecHotels == Init /\ [][NextHotels]_vars

\* The steps the process and its SQLite connection take on their own: the
\* database open, the queued statements, the resumption after `await db.run`.
\* The event loop runs each of them once it is ready.  The replies of the
\* payment and delivery providers are not among them: a provider may never
\* answer, and no call in the source sets a timeout or an abort signal.
LocalStep ==
    \/ DbOpen
    \/ \E s \in Slots : BookingsInsert(s)
    \/ \E s \in Slots : BookingsTokenFetch(s)
    \/ \E s \in Slots : WebhookUpdate(s)
    \/ \E s \in Slots : NotifySelect(s)

SpecLive == Init /\ [][Next]_vars /\ WF_vars(LocalStep)

\* ------------------------------------------------------------------ claims
\* Vocabulary of the properties below.
IsBookings(s) == req[s].kind = "bookings"
IsWebhook(s) == req[s].kind = "webhook"
IsNotify(s) == req[s].kind = "notify"

\* The handler in slot s takes a step (a step changes one slot; a handler
\* that starts overwrites the slot with its own kind).
Steps(s) == req'[s] # req[s]

\* Provider calls the /bookings handler in slot s has issued so far.
ProviderCalls(r) == r.tokenCalls + r.orderCalls

\* The token (order) request of slot s has been answered or has failed.
TokenSettled(s) == IsBookings(s) /\ req[s].tokenCalls > 0 /\ req[s].pc # "token"
OrderSettled(s) == IsBookings(s) /\ req[s].orderCalls > 0 /\ req[s].pc # "order"

\* The table holds a row whose id is the number v.
RowExists(rows, v) == v.t = "number" /\ v.n \in DOMAIN rows /\ rows[v.n].id = v.n

\* C1: in POST /bookings no provider call (token or order request) is issued
\* before the request's row is in the table: a step that issues a call finds
\* the row with the request's bookingId already stored, and the step that
\* stores the row stores it with status pending while the request has issued
\* no call yet.
C1_PersistedBeforeProviderCall ==
    [][\A s \in Slots :
        /\ (IsBookings(s) /\ req'[s].kind = "bookings"
              /\ ProviderCalls(req'[s]) > ProviderCalls(req[s]))
           => RowExists(bookings, req[s].bookingId)
        /\ (IsBookings(s) /\ req[s].pc = "insert" /\ Steps(s))
           => /\ Len(bookings') = Len(bookings) + 1
              /\ bookings'[Len(bookings')].status = "pending"
              /\ req'[s].bookingId = Num(bookings'[Len(bookings')].id)
              /\ ProviderCalls(req'[s]) = 0
    ]_vars

\* C1 witness: a handler is waiting for the token response and its row is stored.
C1_Witness ==
    \E s \in Slots :
        /\ IsBookings(s) /\ req[s].pc = "token" /\ req[s].tokenCalls = 1
        /\ RowExists(bookings, req[s].bookingId)
        /\ bookings[req[s].bookingId.n].status = "pending"

\* C2: every row first appears with status pending, a status is always
\* pending or confirmed, and the only change of a status is pending ->
\* confirmed.
C2_StatusOnlyPendingToConfirmed ==
    /\ [](\A i \in DOMAIN bookings : bookings[i].status \in {"pending", "confirmed"})
    /\ [][/\ Len(bookings') >= Len(bookings)
          /\ \A i \in DOMAIN bookings' :
                IF i \in DOMAIN bookings
                THEN \/ bookings'[i].status = bookings[i].status
                     \/ bookings[i].status = "pending" /\ bookings'[i].status = "confirmed"
                ELSE bookings'[i].status = "pending"
       ]_vars

\* C2 witness: a confirmed row next to a pending one while handlers of all
\* three kinds have run.
C2_Witness ==
    /\ Len(bookings) = 2
    /\ bookings[1].status = "confirmed" /\ bookings[2].status = "pending"
    /\ \E s \in Slots : IsWebhook(s) /\ req[s].pc = "done" /\ req[s].res.code = 200

\* C3: the webhook called with a bookingId that matches no row answers
\* not-found (404) and leaves the table as it was: no row is created and
\* none is modified.
C3_UnknownIdIsNotFound ==
    [][\A s \in Slots :
        (/\ IsWebhook(s) /\ req[s].pc = "update" /\ Steps(s)
         /\ SelectById(bookings, req[s].body.bookingId) = <<>>)
        => /\ req'[s].res.code = 404
           /\ bookings' = bookings
    ]_vars

\* A creation request the claim C4 calls invalid: hotelName missing, total
\* missing, or total not a number.
C4_Invalid(body) ==
    \/ body.hotelName.t = "undefined"
    \/ body.total.t = "undefined"
    \/ ToNumber(body.total).t = "NaN"

\* C4: a creation request with hotelName missing, or total missing or not a
\* number, is rejected with a validation error (400) in the handler's first
\* segment; it writes no row and makes no provider call.  Stated for the
\* requests that arrive once the store handle is assigned.
C4_InvalidRequestRejected ==
    [][\A s \in Slots :
        (/\ db /\ req'[s].kind = "bookings" /\ Steps(s)
         /\ C4_Invalid(req'[s].body))
        => /\ req'[s].pc = "done"
           /\ req'[s].res.code = 400
           /\ bookings' = bookings
           /\ ProviderCalls(req'[s]) = 0
    ]_vars

\* An order response whose link list has a link with rel = "approve".
HasApprove(orderData) ==
    /\ orderData.ok /\ orderData.hasLinks
    /\ \E i \in DOMAIN orderData.links : orderData.links[i].rel = "approve"

\* The href of the first link with rel = "approve".
ApproveOf(orderData) ==
    LET i == CHOOSE k \in DOMAIN orderData.links :
                /\ orderData.links[k].rel = "approve"
                /\ \A j \in 1..(k - 1) : orderData.links[j].rel # "approve"
    IN Str(orderData.links[i].href)

\* C5: a valid creation request that is given an access token ends in the
\* success response {bookingId, approveUrl} (its own row's id, the approve
\* link's href) whenever the provider answers orders with an approve link:
\* once the token arrived, the handler fails only after an order response
\* that has no approve link, in every program.
C5_SuccessOnApprove ==
    \A s \in Slots :
        (/\ IsBookings(s) /\ req[s].pc = "done"
         /\ TokenSettled(s) /\ req[s].authData.ok /\ Truthy(req[s].authData.access_token))
        => /\ req[s].orderCalls = 1
           /\ HasApprove(req[s].orderData)
              => /\ req[s].res.code = 200
                 /\ req[s].res.bookingId = req[s].bookingId
                 /\ RowExists(bookings, req[s].bookingId)
                 /\ req[s].res.approveUrl = ApproveOf(req[s].orderData)

\* The success response, reached by a program whose handler has
\* RAILWAY_URL in scope.
C5_Success ==
    \E s \in Slots :
        /\ IsBookings(s) /\ req[s].pc = "done" /\ req[s].res.code = 200
        /\ req[s].res.approveUrl = Str(ApproveLink.href)

\* The webhook handler in slot s runs its UPDATE in this step, and the id it
\* carries matches row i.
ConfirmsRow(s, i) ==
    /\ IsWebhook(s) /\ req[s].pc = "update" /\ Steps(s)
    /\ i \in DOMAIN bookings
    /\ SqlIdEq(bookings[i].id, req[s].body.bookingId)

\* C6: confirming an existing booking is idempotent.  Each call on an
\* existing id answers success and leaves the table equal to the old one
\* with that row's status confirmed; so a call on a row that is already
\* confirmed (a second call) leaves the whole table as the first call left it.
C6_ConfirmIdempotent ==
    [][\A s \in Slots : \A i \in DOMAIN bookings :
        ConfirmsRow(s, i)
        => /\ req'[s].pc = "done" /\ req'[s].res.code = 200
           /\ bookings' = [bookings EXCEPT ![i].status = "confirmed"]
           /\ (bookings[i].status = "confirmed" => bookings' = bookings)
    ]_vars

\* C6 witness: two webhook calls for the same existing id have both answered
\* success, the row is confirmed and the other row is still pending.
C6_Witness ==
    /\ Len(bookings) = 2
    /\ bookings[1].status = "pending" /\ bookings[2].status = "confirmed"
    /\ \A s \in Slots :
          /\ IsWebhook(s) /\ req[s].pc = "done"
          /\ req[s].body.bookingId = Num(2) /\ req[s].res.code = 200

\* The token response of slot s was received and carries no access token.
NoTokenInResponse(r) == r.authData.ok /\ ~Truthy(r.authData.access_token)

\* C7: when the token response carries no access token the handler answers
\* with an error, never sends the order request, never answers
\* {bookingId, approveUrl}, and the step that handles the response writes
\* nothing to the table, so the request does not confirm its booking.
C7_NoTokenAborts ==
    /\ [](\A s \in Slots :
            (TokenSettled(s) /\ NoTokenInResponse(req[s]))
            => /\ req[s].pc = "done"
               /\ req[s].res.code = 500
               /\ req[s].orderCalls = 0
               /\ req[s].res.bookingId = Undef /\ req[s].res.approveUrl = Undef)
    /\ [][\A s \in Slots :
            (IsBookings(s) /\ req[s].pc = "token" /\ Steps(s)
               /\ NoTokenInResponse(req'[s]))
            => /\ bookings' = bookings
               /\ RowExists(bookings, req[s].bookingId)
       ]_vars

\* C7 witness: a handler failed on a token response without a token and its
\* row is still pending.
C7_Witness ==
    \E s \in Slots :
        /\ TokenSettled(s) /\ NoTokenInResponse(req[s])
        /\ req[s].res.code = 500
        /\ RowExists(bookings, req[s].bookingId)
        /\ bookings[req[s].bookingId.n].status = "pending"

\* C8: when the order response has no link with rel = "approve" (or no link
\* list at all) the handler answers with an error and never with a
\* {bookingId, approveUrl} pair.
C8_NoApproveLinkIsError ==
    \A s \in Slots :
        (OrderSettled(s) /\ req[s].orderData.ok /\ ~HasApprove(req[s].orderData))
        => /\ req[s].pc = "done"
           /\ req[s].res.code = 500
           /\ req[s].res.bookingId = Undef /\ req[s].res.approveUrl = Undef

\* C8 witness: failures after an order response with links but none to
\* approve, and after one without a link list.
C8_Witness ==
    /\ \E s \in Slots :
          /\ OrderSettled(s) /\ req[s].orderData.ok /\ req[s].orderData.hasLinks
          /\ req[s].orderData.links # <<>> /\ ~HasApprove(req[s].orderData)
          /\ req[s].res.code = 500
    /\ \E s \in Slots :
          /\ OrderSettled(s) /\ req[s].orderData.ok /\ ~req[s].orderData.hasLinks
          /\ req[s].res.code = 500

\* Row r with its status set aside.
SansStatus(r) == [r EXCEPT !.status = ""]

\* C9: a stored row is never removed and its id, hotel_name, checkin,
\* checkout, guests and total_amount never change; a status changes only in
\* the UPDATE step of a webhook handler, and only on the row whose id that
\* handler carries; no step of a notify handler changes the table.
C9_Frame ==
    [][/\ Len(bookings') >= Len(bookings)
       /\ \A i \in DOMAIN bookings :
             /\ SansStatus(bookings'[i]) = SansStatus(bookings[i])
             /\ bookings'[i].status # bookings[i].status
                => \E s \in Slots : ConfirmsRow(s, i)
       /\ \A s \in Slots :
             (req'[s].kind = "notify" /\ Steps(s)) => bookings' = bookings
    ]_vars

\* C9 witness: a notify handler whose delivery failed has answered 500 while
\* the table holds a confirmed row and a pending row.
C9_Witness ==
    /\ Len(bookings) = 2
    /\ bookings[1].status = "confirmed" /\ bookings[2].status = "pending"
    /\ \E s \in Slots :
          /\ IsNotify(s) /\ req[s].pc = "done" /\ req[s].deliveryCalls = 1
          /\ req[s].res.code = 500

\* C10: an upstream call that fails in transport or returns an unparsable
\* body is answered with an error response, and the process stays up: no
\* /hotels request is left without a response.
C10_UpstreamFailureAnswered ==
    /\ alive
    /\ \A s \in Slots :
          /\ hreq[s].pc # "lost"
          /\ (hreq[s].pc = "done" /\ hreq[s].out \in {"unparsable", "transport"})
             => hreq[s].res.code = 500

\* The smaller of two numbers.
Min(a, b) == IF a < b THEN a ELSE b

\* C11: for page >= 1, limit >= 1 and an upstream payload of N records the
\* answer holds exactly the normalized records (page-1)*limit+1 ..
\* min(page*limit, N) of the payload, in upstream order, and total = N.
C11_PageIsSliceOfAll ==
    \A s \in Slots :
        (hreq[s].pc = "done" /\ hreq[s].out = "json")
        => LET page == hreq[s].page
               limit == hreq[s].limit
               N == hreq[s].n
               first == (page - 1) * limit
               last == Min(page * limit, N)
           IN /\ page >= 1 /\ limit >= 1
              /\ hreq[s].res.code = 200
              /\ hreq[s].res.total = N
              /\ Len(hreq[s].res.data) = (IF last > first THEN last - first ELSE 0)
              /\ \A i \in DOMAIN hreq[s].res.data :
                    hreq[s].res.data[i] = Normalize(UpstreamHotel(first + i))

\* C11 witness: page 2 with the default limit 10 of at least 20 records
\* answers records 11..20, and a page past the end answers none.
C11_Witness ==
    /\ \E s \in Slots :
          /\ hreq[s].pc = "done" /\ hreq[s].out = "json"
          /\ hreq[s].page = 2 /\ hreq[s].limit = 10 /\ hreq[s].n >= 20
          /\ Len(hreq[s].res.data) = 10
          /\ hreq[s].res.data[1].id = 11 /\ hreq[s].res.data[10].id = 20
          /\ hreq[s].res.data[1].description = <<>>
          /\ hreq[s].res.total = hreq[s].n
    /\ \E s \in Slots :
          /\ hreq[s].pc = "done" /\ hreq[s].out = "json"
          /\ hreq[s].page = 3 /\ hreq[s].n = 3 /\ hreq[s].limit = 2
          /\ hreq[s].res.data = <<>> /\ hreq[s].res.total = 3

\* The notify request in slot s names an id that matches no row.  Rows are
\* never deleted, so an id that matches none now matched none when read.
UnknownBooking(s) == SelectById(bookings, req[s].body.bookingId) = <<>>

\* C12: a notify request for an id that matches no row is answered not-found
\* (404) and makes no call to the delivery provider; a delivery call is only
\* made by a handler that has read a row with the requested id.  The contact
\* is supplied, so the request passes the handler's own validation.
C12_UnknownIdNoDelivery ==
    \A s \in Slots :
        /\ (/\ IsNotify(s) /\ req[s].pc = "done" /\ UnknownBooking(s)
            /\ Truthy(Contact(variant, req[s].body)))
           => (req[s].res.code = 404 /\ req[s].deliveryCalls = 0)
        /\ (IsNotify(s) /\ req[s].deliveryCalls > 0)
           => (/\ req[s].booking # <<>>
               /\ SqlIdEq(req[s].booking[1].id, req[s].body.bookingId))

\* Lemma: the only other answer to such a request is the catch's 500, given
\* without a row read and without a delivery call (the use of the store
\* threw: the handle was not assigned yet).
UnknownIdElseStoreFailure ==
    \A s \in Slots :
        (/\ IsNotify(s) /\ req[s].pc = "done" /\ UnknownBooking(s)
         /\ Truthy(Contact(variant, req[s].body)) /\ req[s].res.code # 404)
        => (req[s].res = NotifyFailed(variant) /\ req[s].deliveryCalls = 0
            /\ req[s].booking = <<>>)

\* The handler in slot s issues a delivery call in this step.
Dispatches(s) == req'[s].kind = "notify" /\ req'[s].deliveryCalls > req[s].deliveryCalls

\* C13: in the two e-mail programs, the step that issues the delivery call
\* sends a message whose hotel name, checkin, checkout, guest count and total
\* are those of the row of the table whose id is the requested bookingId, as
\* it is stored at that step, addressed to the e-mail of the request.
C13_MessageCarriesStoredRow ==
    [][\A s \in Slots :
        (Dispatches(s) /\ variant # "twilio" /\ Truthy(req[s].body.email))
        => \E i \in DOMAIN bookings :
              LET row == bookings[i]
                  msg == req'[s].message[1]
              IN /\ IdText[row.id] = req[s].body.bookingId.s
                 /\ Len(req'[s].message) = 1
                 /\ msg.to = req[s].body.email
                 /\ msg.hotel = row.hotel_name
                 /\ msg.checkin = row.checkin
                 /\ msg.checkout = row.checkout
                 /\ msg.guests = row.guests
                 /\ msg.total = row.total_amount
    ]_vars

\* C13 witness: an e-mail for booking 2 is dispatched with the values of
\* row 2 while row 1 holds a different hotel, dates, guest count.
C13_Witness ==
    /\ variant # "twilio" /\ Len(bookings) = 2
    /\ bookings[1].hotel_name # bookings[2].hotel_name
    /\ bookings[1].checkin # bookings[2].checkin
    /\ bookings[1].guests # bookings[2].guests
    /\ \E s \in Slots :
          /\ IsNotify(s) /\ req[s].pc = "deliver" /\ req[s].deliveryCalls = 1
          /\ req[s].body.bookingId = Str("2")
          /\ req[s].message[1].hotel = bookings[2].hotel_name
          /\ req[s].message[1].checkin = bookings[2].checkin
          /\ req[s].message[1].to = Str("a@b.c")

\* C14: under every interleaving of /bookings requests, the INSERT of a
\* request appends one row whose id no earlier row has and which no other
\* handler holds as its bookingId; the handler keeps that id unchanged, and
\* the id in the return_url of its order request and in its 200 response is
\* that id, the row under it being the one built from the request's own body.
C14_OwnUniqueId ==
    [][\A s \in Slots :
        /\ (req[s].kind = "bookings" /\ req[s].pc = "insert" /\ Steps(s))
           => /\ Len(bookings') = Len(bookings) + 1
              /\ req'[s].bookingId = Num(bookings'[Len(bookings')].id)
              /\ \A i \in DOMAIN bookings : bookings[i].id # bookings'[Len(bookings')].id
              /\ \A o \in Slots \ {s} : req[o].bookingId # req'[s].bookingId
              /\ bookings'[Len(bookings')] =
                    NewRow(req'[s].bookingId.n, req[s].body, ToNumber(req[s].body.total))
        /\ (req[s].kind = "bookings" /\ req[s].pc \notin {"insert", "done"})
           => req'[s].bookingId = req[s].bookingId
        /\ (req'[s].kind = "bookings" /\ req'[s].orderCalls > req[s].orderCalls)
           => /\ req'[s].orderBody.returnBookingId = req[s].bookingId
              /\ bookings[req[s].bookingId.n].id = req[s].bookingId.n
              /\ bookings[req[s].bookingId.n].hotel_name = req[s].body.hotelName
        /\ (req'[s].kind = "bookings" /\ req'[s].res.code = 200)
           => /\ req'[s].res.bookingId = req'[s].bookingId
              /\ req'[s].res.bookingId = req'[s].orderBody.returnBookingId
       /\ \A i, j \in DOMAIN bookings' : bookings'[i].id = bookings'[j].id => i = j
    ]_vars

\* C14 witness: two requests in flight together whose INSERTs ran in the
\* order opposite to their arrival; both were answered 200, each with the
\* id of its own row (different hotels).
C14_Witness ==
    /\ Len(bookings) = 2
    /\ \A s \in Slots : IsBookings(s) /\ req[s].pc = "done" /\ req[s].res.code = 200
    /\ req[1].res.bookingId = Num(2) /\ req[2].res.bookingId = Num(1)
    /\ req[1].body.hotelName # req[2].body.hotelName
    /\ bookings[2].hotel_name = req[1].body.hotelName
    /\ bookings[1].hotel_name = req[2].body.hotelName

\* The handler record r belongs to a handler that got past its validation,
\* that is, one that has called db.run or db.get.
UsesStore(r) ==
    /\ r.kind \in {"bookings", "webhook", "notify"}
    /\ ~(r.pc = "done" /\ r.res.code = 400)

\* C15: a handler that starts and reaches its store call finds the handle
\* assigned (the asynchronous open and CREATE TABLE have completed).
C15_StoreReadyWhenUsed ==
    [][\A s \in Slots : (Free(s) /\ Steps(s) /\ UsesStore(req'[s])) => db]_vars

\* The /bookings request in slot s wrote its row and then failed in the
\* payment step (token exchange or order creation): it was answered 500.
Orphaned(s) ==
    /\ IsBookings(s) /\ req[s].pc = "done" /\ req[s].res.code = 500
    /\ req[s].bookingId.t = "number"

\* C16: the row of a request whose payment step failed is kept, and once it
\* is orphaned and pending no step of any handler changes its status.
C16_OrphanStaysPending ==
    [][\A s \in Slots :
        (Orphaned(s) /\ RowExists(bookings, req[s].bookingId)
         /\ bookings[req[s].bookingId.n].status = "pending")
        => /\ RowExists(bookings', req[s].bookingId)
           /\ bookings'[req[s].bookingId.n].status = "pending"
    ]_vars

\* Lemma: the payment step never removes the row, and the only step that
\* changes the status of an orphaned row is the UPDATE of a webhook request
\* that names its id.
OrphanKeptUnlessWebhook ==
    [][\A s \in Slots :
        Orphaned(s)
        => /\ RowExists(bookings, req[s].bookingId)
           /\ RowExists(bookings', req[s].bookingId)
           /\ bookings'[req[s].bookingId.n].status # bookings[req[s].bookingId.n].status
              => \E w \in Slots : ConfirmsRow(w, req[s].bookingId.n)
    ]_vars

\* The row stored for the /bookings request in slot s.
RowOf(s) == bookings[req[s].bookingId.n]

\* C17: for every request that has made its order call and whose row holds
\* a number, the two-decimal amount of the order (hundredths) denotes the
\* amount stored in total_amount (thousandths).
C17_OrderAmountIsStoredAmount ==
    \A s \in Slots :
        (/\ IsBookings(s) /\ req[s].orderCalls > 0
         /\ RowExists(bookings, req[s].bookingId)
         /\ RowOf(s).total_amount.t = "number")
        => /\ req[s].orderBody.value.t = "number"
           /\ req[s].orderBody.value.n * 10 = RowOf(s).total_amount.n

\* C18: every stored row that holds a number holds a non-negative one, and
\* every order call that carries a number carries a positive one.
C18_NoNegativeAmount ==
    /\ \A i \in DOMAIN bookings :
          bookings[i].total_amount.t = "number" => bookings[i].total_amount.n >= 0
    /\ \A s \in Slots :
          (IsBookings(s) /\ req[s].orderCalls > 0 /\ req[s].orderBody.value.t = "number")
          => req[s].orderBody.value.n > 0

\* C19: a delivery call is made only for a booking whose row, as read by the
\* notify handler, has status confirmed.
C19_DeliveryOnlyWhenConfirmed ==
    \A s \in Slots :
        (IsNotify(s) /\ req[s].deliveryCalls > 0)
        => (req[s].booking # <<>> /\ req[s].booking[1].status = ConfirmStatus)

\* C20: every /bookings request is eventually answered, whether or not the
\* payment provider replies to its token or order request: a handler that
\* is running reaches its response.
C20_EveryRequestAnswered ==
    \A s \in Slots :
        (IsBookings(s) /\ req[s].pc # "done")
        ~> (req[s].pc = "done" /\ req[s].res.code # 0)

\* C21: no handler repeats an external call.  A /bookings handler issues at
\* most one token request and at most one order request, and a notify
\* handler at most one delivery call, whatever the replies; a step adds at
\* most one row, the step that adds it is the INSERT of a handler that has
\* no bookingId yet, and a handler that has its bookingId never reaches an
\* INSERT again.
C21_NoRetry ==
    /\ [](\A s \in Slots :
            /\ req[s].tokenCalls <= 1
            /\ req[s].orderCalls <= 1
            /\ req[s].deliveryCalls <= 1
            /\ req[s].orderCalls <= req[s].tokenCalls
            /\ (IsBookings(s) /\ req[s].bookingId # Undef) => req[s].pc # "insert")
    /\ [][/\ Len(bookings') <= Len(bookings) + 1
          /\ Len(bookings') > Len(bookings)
             => \E s \in Slots :
                   /\ IsBookings(s) /\ req[s].pc = "insert" /\ Steps(s)
                   /\ req[s].bookingId = Undef /\ req'[s].bookingId # Undef
                   /\ ProviderCalls(req[s]) = 0
          /\ \A s \in Slots :
                (req[s].pc = "done" /\ req'[s].kind = req[s].kind /\ ~Free(s))
                => ProviderCalls(req'[s]) = ProviderCalls(req[s])
       ]_vars

\* C21 witness: two /bookings requests are finished, one answered 200 and
\* one answered 500 after a failed order response; each has inserted one
\* row and issued one token request and one order request.
C21_Witness ==
    /\ Len(bookings) = 2
    /\ \A s \in Slots :
          /\ IsBookings(s) /\ req[s].pc = "done"
          /\ req[s].tokenCalls = 1 /\ req[s].orderCalls = 1
    /\ \E s \in Slots : req[s].res.code = 200
    /\ \E s \in Slots : req[s].res.code = 500 /\ ~req[s].orderData.ok

====
